---- MODULE Spec2Model ----
(***************************************************************************)
(* Model of cornice_sphinx/__init__.py: the cornice-autodoc directive      *)
(* (ServiceDirective), the exec directive (ExecDirective) and the trim     *)
(* docstring normaliser.                                                   *)
(*                                                                         *)
(* Python text is a sequence of one-character strings (<<"a", " ">>), so   *)
(* that expandtabs, splitlines, strip and slicing are computed character   *)
(* by character.  Names, paths and HTTP methods, which the code only       *)
(* compares and copies, are TLA+ strings.  None is the string "None".      *)
(***************************************************************************)
EXTENDS Integers, Sequences, FiniteSets, TLC

VARIABLES
    MODULES,      \* module-level dict MODULES (its keys)
    SERVICES,     \* cornice's process-wide registry, a list of service names
    serialno,     \* env.new_serialno('service') counter of the build environment
    listed,       \* module names the import loop has processed so far
    lastSvc,      \* record of the latest ServiceDirective.run invocation
    runs,         \* number of directive invocations so far
    stdout,       \* what sys.stdout is bound to
    input_lines,  \* blocks spliced by state_machine.insert_input, in order
    lastExec,     \* record of the latest ExecDirective.run invocation
    docstring,    \* argument given to trim
    trimmed,      \* value trim returned
    pcTrim        \* "in" before trim is applied, "out" after

vars == <<MODULES, SERVICES, serialno, listed, lastSvc, runs,
          stdout, input_lines, lastExec, docstring, trimmed, pcTrim>>

svcVars == <<MODULES, SERVICES, serialno, listed, lastSvc>>
execVars == <<stdout, input_lines, lastExec>>
trimVars == <<docstring, trimmed, pcTrim>>

None == "None"

(***************************************************************************)
(* Bounds.                                                                 *)
(***************************************************************************)
MaxRuns == 2        \* directive invocations per behaviour
MaxLines == 3       \* lines of a docstring handed to trim

(***************************************************************************)
(* Python str helpers used by trim.                                        *)
(***************************************************************************)
\* the default tab size of str.expandtabs()
tabsize == 8

\* sys.maxsize, the "no indentation seen" mark: here the largest integer the
\* model checker holds, above the length of any line
maxsize == 2147483647

Min(a, b) == IF a < b THEN a ELSE b

IsSpace(c) == c \in {" ", "\t", "\n"}

RECURSIVE Spaces(_)
Spaces(n) == IF n <= 0 THEN <<>> ELSE <<" ">> \o Spaces(n - 1)

\* str.expandtabs(): a tab pads to the next multiple of 8 columns, a newline
\* resets the column.
RECURSIVE expandtabsFrom(_, _, _, _)
expandtabsFrom(s, i, col, width) ==
    IF i > Len(s) THEN <<>>
    ELSE IF s[i] = "\t"
         THEN LET incr == width - (col % width)
              IN Spaces(incr) \o expandtabsFrom(s, i + 1, col + incr, width)
         ELSE IF s[i] = "\n"
              THEN <<"\n">> \o expandtabsFrom(s, i + 1, 0, width)
              ELSE <<s[i]>> \o expandtabsFrom(s, i + 1, col + 1, width)

expandtabs(s) == expandtabsFrom(s, 1, 0, tabsize)

\* str.splitlines(): lines without their terminator; a trailing terminator
\* opens no further line and the empty string has no line.
RECURSIVE splitlinesFrom(_, _, _)
splitlinesFrom(s, i, cur) ==
    IF i > Len(s) THEN (IF cur = <<>> THEN <<>> ELSE <<cur>>)
    ELSE IF s[i] = "\n"
         THEN <<cur>> \o splitlinesFrom(s, i + 1, <<>>)
         ELSE splitlinesFrom(s, i + 1, Append(cur, s[i]))

splitlines(s) == splitlinesFrom(s, 1, <<>>)

RECURSIVE lstrip(_)
lstrip(s) == IF s # <<>> /\ IsSpace(Head(s)) THEN lstrip(Tail(s)) ELSE s

RECURSIVE rstrip(_)
rstrip(s) ==
    IF s # <<>> /\ IsSpace(s[Len(s)]) THEN rstrip(SubSeq(s, 1, Len(s) - 1)) ELSE s

strip(s) == rstrip(lstrip(s))

\* line[indent:]
SliceFrom(s, n) == IF n >= Len(s) THEN <<>> ELSE SubSeq(s, n + 1, Len(s))

RECURSIVE join(_, _)
join(sep, ls) ==
    IF ls = <<>> THEN <<>>
    ELSE IF Len(ls) = 1 THEN ls[1]
         ELSE ls[1] \o sep \o join(sep, Tail(ls))

(***************************************************************************)
(* trim (PEP 257).                                                         *)
(***************************************************************************)
\* A slip of the indentation loop: blank lines count too.
RECURSIVE MinIndentCountingBlank(_, _, _)
MinIndentCountingBlank(lines, i, indent) ==
    IF i > Len(lines) THEN indent
    ELSE MinIndentCountingBlank(lines, i + 1,
             Min(indent, Len(lines[i]) - Len(lstrip(lines[i]))))

\* for line in lines[1:]: ... indent = min(indent, len(line) - len(stripped))
RECURSIVE MinIndent(_, _, _)
MinIndent(lines, i, indent) ==
    IF i > Len(lines) THEN indent
    ELSE LET stripped == lstrip(lines[i])
         IN MinIndent(lines, i + 1,
                IF stripped # <<>>
                THEN Min(indent, Len(lines[i]) - Len(stripped))
                ELSE indent)

RECURSIVE PopTrailingBlank(_)
PopTrailingBlank(t) ==
    IF t # <<>> /\ t[Len(t)] = <<>>
    THEN PopTrailingBlank(SubSeq(t, 1, Len(t) - 1)) ELSE t

RECURSIVE PopLeadingBlank(_)
PopLeadingBlank(t) ==
    IF t # <<>> /\ t[1] = <<>> THEN PopLeadingBlank(Tail(t)) ELSE t

trim(d) ==
    IF d = None \/ d = <<>> THEN <<>>
    ELSE LET lines == splitlines(expandtabs(d))
             indent == MinIndent(lines, 2, maxsize)
             first == <<strip(lines[1])>>
             trimmedLines ==
                 IF indent < maxsize
                 THEN first \o [j \in 1..(Len(lines) - 1) |->
                                   rstrip(SliceFrom(lines[j + 1], indent))]
                 ELSE first
         IN join(<<"\n">>, PopLeadingBlank(PopTrailingBlank(trimmedLines)))

\* format_docstring(obj): trim(obj.__doc__ or "") + '\n'
format_docstring(doc) == trim(IF doc = None THEN <<>> ELSE doc) \o <<"\n">>

(***************************************************************************)
(* Inputs of trim: the empty string and texts of up to MaxLines lines,     *)
(* with or without a final newline.  InitTrim adds None.                   *)
(***************************************************************************)
LineSet ==
    { <<>>, <<" ">>, <<"a">>, <<" ", "a">>, <<" ", " ", "a">>,
      <<"a", " ">>, <<" ", "a", " ">>, <<"\t", "a">> }

LineSeqs == UNION { [1..n -> LineSet] : n \in 1..MaxLines }

Docstrings ==
    { <<>> }
      \cup { join(<<"\n">>, ls) : ls \in LineSeqs }
      \cup { join(<<"\n">>, ls) \o <<"\n">> : ls \in LineSeqs }

Trim ==
    /\ pcTrim = "in"
    /\ trimmed' = trim(docstring)
    /\ pcTrim' = "out"
    /\ UNCHANGED <<docstring, svcVars, execVars, runs>>

(***************************************************************************)
(* Python values held by service descriptors: strings, lists, callables.   *)
(***************************************************************************)
PyStr(v) == [kind |-> "str", value |-> v, items |-> <<>>, doc |-> None]
PyList(items) == [kind |-> "list", value |-> "", items |-> items, doc |-> None]
PyCallable(doc) == [kind |-> "callable", value |-> "", items |-> <<>>, doc |-> doc]

is_string(obj) == obj.kind = "str"
callable(obj) == obj.kind = "callable"

\* cornice.util.to_list: wrap anything that is not a list or a tuple
to_list(obj) == IF obj.kind = "list" THEN obj ELSE PyList(<<obj>>)

\* str.lower() and str.title() on the names the descriptors use
lower(name) ==
    CASE name = "Collection_Get" -> "collection_get"
      [] name = "Get" -> "get"
      [] OTHER -> name

title(name) ==
    CASE name = "users" -> "Users"
      [] name = "items" -> "Items"
      [] name = "admin" -> "Admin"
      [] name = "legacy" -> "Legacy"
      [] name = "bare" -> "Bare"
      [] name = "ping" -> "Ping"
      [] OTHER -> name

(***************************************************************************)
(* The services the documented project registers.  args is a mapping; a    *)
(* key it lacks is absent from its domain.  A klass is the mapping of its  *)
(* attributes to their docstrings; a schema is the list of its children.   *)
(***************************************************************************)
NoArgs == [x \in {} |-> None]

\* A schema child.  location, type and typ are None when the object has no
\* such attribute; missing is None or <<default>>.
Attr(name, location, type, typ, required, missing, description) ==
    [name |-> name, location |-> location, type |-> type, typ |-> typ,
     required |-> required, missing |-> missing, description |-> description]

UserSchema ==
    << Attr("name", "body", "String", None, TRUE, None, <<"n">>),
       Attr("page", "querystring", None, "Integer", FALSE, <<1>>, <<>>),
       Attr("token", "header", None, None, FALSE, None, <<>>),
       Attr("note", None, None, None, TRUE, None, <<>>) >>

UserKlass == ("collection_get" :> <<" ", "c", "\n", " ", " ", "g">>)

Definition(method, view, args) == [method |-> method, view |-> view, args |-> args]

UsersGetArgs ==
    ("renderer" :> "simplejson")
      @@ ("accept" :> PyList(<<PyStr("text/plain"), PyStr("application/json")>>))
      @@ ("validators" :> <<PyCallable(<<"v">>)>>)

ServiceTable ==
    [users |->
        [name |-> "users", path |-> "/users", description |-> <<" ", "U", "\n">>,
         definitions |->
            << Definition("GET", PyCallable(<<"g">>), UsersGetArgs),
               Definition("HEAD", PyCallable(<<"g">>), UsersGetArgs),
               Definition("POST", PyCallable(None),
                          ("renderer" :> "json")
                            @@ ("accept" :> PyStr("application/json"))
                            @@ ("schema" :> UserSchema)) >>],
     items |->
        [name |-> "items", path |-> "/items", description |-> None,
         definitions |->
            << Definition("GET", PyStr("Collection_Get"),
                          ("renderer" :> "xml") @@ ("klass" :> UserKlass)),
               Definition("PUT", PyCallable(<<"p">>),
                          ("renderer" :> "json")
                            @@ ("accept" :> PyCallable(<<" ", "t", " ">>))),
               Definition("DELETE", PyCallable(<<"d">>),
                          ("renderer" :> "json")
                            @@ ("validators" :> <<PyStr("Collection_Get")>>)
                            @@ ("klass" :> UserKlass)) >>],
     ping |->
        [name |-> "ping", path |-> "/ping", description |-> <<>>,
         definitions |->
            << Definition("HEAD", PyCallable(<<"h">>), ("renderer" :> "json")),
               Definition("GET", PyCallable(<<"h">>), ("renderer" :> "string")) >>],
     legacy |->
        [name |-> "legacy", path |-> "/legacy", description |-> None,
         definitions |->
            << Definition("GET", PyCallable(<<"l">>), ("renderer" :> "json")),
               \* args without 'renderer'
               Definition("POST", PyCallable(<<"l">>), NoArgs) >>],
     admin |->
        [name |-> "admin", path |-> "/admin", description |-> None,
         definitions |->
            << \* a string handler that names no attribute of klass
               Definition("POST", PyStr("Get"),
                          ("renderer" :> "json") @@ ("klass" :> UserKlass)),
               Definition("GET", PyCallable(None), ("renderer" :> "json")) >>],
     bare |->
        [name |-> "bare", path |-> "/bare", description |-> None,
         definitions |->
            << \* a string handler and no klass
               Definition("DELETE", PyStr("get"), ("renderer" :> "json")) >>]]

\* What importing or reloading a module appends to the registry, and what
\* app.main({}) appends to it.
Registers(module) ==
    CASE module = "pkg.views" -> <<"users", "items">>
      [] module = "pkg.admin" -> <<"admin", "bare">>
      [] OTHER -> <<>>

AppRegisters == <<"ping", "legacy">>

(***************************************************************************)
(* Document nodes: a tag, an id ("" when the node has none), a text and    *)
(* the child nodes in order.                                               *)
(***************************************************************************)
Node(tag, id, text, children) ==
    [tag |-> tag, id |-> id, text |-> text, children |-> children]

\* rst2node(data, env): nothing for empty data, else the parsed node
rst2node(data) ==
    IF data = <<>> THEN <<>> ELSE << Node("rst", "", data, <<>>) >>

\* A step that may raise: text is its value, raised the exception or None.
Value(text) == [raised |-> None, text |-> text]
Raise(exc) == [raised |-> exc, text |-> <<>>]

_resolve_obj_to_docstring(obj, args) ==
    IF is_string(obj)
    THEN IF "klass" \in DOMAIN args
         THEN LET ob == args["klass"]
              IN IF lower(obj.value) \in DOMAIN ob      \* getattr(ob, obj.lower())
                 THEN Value(format_docstring(ob[lower(obj.value)]))
                 ELSE Raise("AttributeError")
         ELSE Value(<<>>)
    ELSE Value(format_docstring(obj.doc))

\* _get_attributes(schema, location): the children kept by _filter
_filter(attr, location) ==
    IF attr.location = None THEN location = "body" ELSE attr.location = location

_get_attributes(schema, location) == SelectSeq(schema, LAMBDA a : _filter(a, location))

json_dumps(v) == ToString(v)

AttrItem(attr) ==
    LET attr_type == IF attr.type # None THEN attr.type
                     ELSE IF attr.typ # None THEN attr.typ ELSE None
    IN Node("list_item", "", <<>>,
            << Node("strong", "", <<attr.name>>, <<>>) >>
            \o (IF attr_type # None
                THEN << Node("inline", "", <<" (", attr_type, ")">>, <<>>) >>
                ELSE <<>>)
            \o (IF ~attr.required \/ attr.description # <<>>
                THEN << Node("inline", "", <<" - ">>, <<>>) >>
                     \o (IF ~attr.required
                         THEN IF attr.missing # None
                              THEN << Node("inline", "",
                                           <<"(default: ", json_dumps(attr.missing[1]), ") ">>,
                                           <<>>) >>
                              ELSE << Node("inline", "", <<"(optional) ">>, <<>>) >>
                         ELSE <<>>)
                     \o (IF attr.description # <<>>
                         THEN << Node("inline", "", attr.description, <<>>) >>
                         ELSE <<>>)
                ELSE <<>>))

LocationAttrs(schema, location) ==
    LET attributes == _get_attributes(schema, location)
    IN IF attributes # <<>>
       THEN << Node("inline", "", <<"values in the ", location>>, <<>>),
               Node("bullet_list", "", <<>>,
                    [j \in 1..Len(attributes) |-> AttrItem(attributes[j])]) >>
       ELSE <<>>

AttrsNode(schema) ==
    Node("inline", "", <<>>,
         LocationAttrs(schema, "header") \o LocationAttrs(schema, "querystring")
           \o LocationAttrs(schema, "body"))

\* for validator in args.get('validators', ()): docstring += ...
RECURSIVE AddValidators(_, _, _, _)
AddValidators(doc, validators, i, args) ==
    IF i > Len(validators) THEN Value(doc)
    ELSE LET r == _resolve_obj_to_docstring(validators[i], args)
         IN IF r.raised # None THEN r
            ELSE AddValidators(doc \o r.text, validators, i + 1, args)

\* Text(item) of nodes.inline(text=item): str() of a value that is no string
ItemText(item) == IF is_string(item) THEN <<item.value>> ELSE <<"<", item.kind, ">">>

\* if 'accept' in args: what is added to the docstring and to method_node
AcceptPart(args) ==
    IF "accept" \notin DOMAIN args THEN [doc |-> <<>>, nodes |-> <<>>]
    ELSE LET accept == to_list(args["accept"])
         IN IF callable(accept)
            THEN [doc |-> IF accept.doc # None THEN strip(accept.doc) ELSE <<>>,
                  nodes |-> <<>>]
            ELSE [doc |-> <<>>,
                  nodes |-> << Node("strong", "", <<"Accepted content types:">>,
                                  << Node("bullet_list", "", <<>>,
                                         [j \in 1..Len(accept.items) |->
                                            Node("list_item", "", <<>>,
                                                 << Node("inline", "",
                                                         ItemText(accept.items[j]),
                                                         <<>>) >>)]) >>) >>]

\* Options are a mapping; a key not given is absent from its domain.
OptGet(options, key, default) ==
    IF key \in DOMAIN options THEN options[key] ELSE default

InSeq(x, seq) == \E j \in 1..Len(seq) : seq[j] = x

\* A slip of the method filter: HEAD is documented like any other method.
SkippedWithoutHead(options, method) ==
    InSeq(method, OptGet(options, "ignore-methods", <<>>))

\* the two `continue` tests at the head of the definitions loop
Skipped(options, method) ==
    method = "HEAD" \/ InSeq(method, OptGet(options, "ignore-methods", <<>>))

\* One turn of `for method, view, args in service.definitions`: nodes is
\* <<method_node>>, or <<>> when the definition is skipped; raised is the
\* exception that left the turn, or None.
Done(nodes) == [raised |-> None, nodes |-> nodes]
Fail(exc) == [raised |-> exc, nodes |-> <<>>]

\* lines 275-289: the docstring node, the response line, the method node
MethodNode(service_id, def, accept_nodes, node) ==
    IF node = <<>>
    THEN Fail("TypeError")        \* DocFieldTransformer.transform_all(None)
    ELSE IF "renderer" \notin DOMAIN def.args
    THEN Fail("KeyError")         \* args['renderer']
    ELSE Done(<< Node("section", service_id \o "-" \o def.method, <<>>,
                      << Node("title", "", <<def.method>>, <<>>) >>
                        \o (IF "schema" \in DOMAIN def.args
                            THEN << AttrsNode(def.args["schema"]) >> ELSE <<>>)
                        \o accept_nodes
                        \o node
                        \o << Node("paragraph", "", <<>>,
                                   << Node("strong", "",
                                           << "Response: ",
                                              IF def.args["renderer"] = "simplejson"
                                              THEN "json" ELSE def.args["renderer"] >>,
                                           <<>>) >>) >>) >>)

\* lines 257-275: accept adds to the docstring or to the method node, then
\* the docstring is converted
AfterValidators(service_id, def, doc, accept) ==
    MethodNode(service_id, def, accept.nodes, rst2node(doc \o accept.doc))

\* lines 254-255, given the docstring of the view
AfterView(service_id, def, withValidators) ==
    IF withValidators.raised # None THEN Fail(withValidators.raised)
    ELSE AfterValidators(service_id, def, withValidators.text, AcceptPart(def.args))

\* lines 203-208, 254-255: the view's docstring, then the validators'.  No
\* modelled invocation gives docstring-replace, so that loop runs over {}.
WithDocstring(service_id, def, view) ==
    IF view.raised # None THEN Fail(view.raised)
    ELSE AfterView(service_id, def,
                   AddValidators(view.text, OptGet(def.args, "validators", <<>>),
                                 1, def.args))

RenderDefinition(options, service_id, def) ==
    IF Skipped(options, def.method) THEN Done(<<>>)
    ELSE WithDocstring(service_id, def,
                       _resolve_obj_to_docstring(def.view, def.args))

\* the definitions loop: acc holds the method nodes appended so far
RECURSIVE RenderDefinitions(_, _, _, _, _)
RECURSIVE NextDefinition(_, _, _, _, _, _)
NextDefinition(options, service_id, defs, i, acc, r) ==
    IF r.raised # None THEN r
    ELSE RenderDefinitions(options, service_id, defs, i + 1, acc \o r.nodes)

RenderDefinitions(options, service_id, defs, i, acc) ==
    IF i > Len(defs) THEN Done(acc)
    ELSE NextDefinition(options, service_id, defs, i, acc,
                        RenderDefinition(options, service_id, defs[i]))

\* lines 177-188 and 290: the service node around its method nodes
ServiceNode(service, service_id, methods) ==
    IF methods.raised # None THEN methods
    ELSE Done(<< Node("section", service_id, <<>>,
                      << Node("title", "",
                              << title(service.name) \o " service at "
                                   \o service.path >>, <<>>) >>
                        \o (IF service.description # None
                            THEN rst2node(trim(service.description)) ELSE <<>>)
                        \o methods.nodes) >>)

\* _render_service(service) with new_serialno returning n.  nodes is
\* <<service_node>>.  No modelled invocation gives title-replace, so that
\* loop runs over {}.
_render_service(options, service, n) ==
    ServiceNode(service, "service-" \o ToString(n),
                RenderDefinitions(options, "service-" \o ToString(n),
                                  service.definitions, 1, <<>>))

(***************************************************************************)
(* ServiceDirective.run.                                                   *)
(***************************************************************************)
\* The directive's options as the option parser hands them over: only keys
\* of option_spec, each present or not.
Opt(key, values) == {NoArgs} \cup { key :> v : v \in values }

OptionBags ==
    { a @@ m @@ ss @@ sv @@ ig @@ im :
        a \in Opt("app", {"pkg"}),
        m \in Opt("modules", { <<"pkg.views">>,
                               <<"pkg.admin", "pkg.views", "pkg.admin">> }),
        ss \in Opt("services", { <<"users">> }),
        sv \in Opt("service", {"items"}),
        ig \in Opt("ignore", { <<"users">> }),
        im \in Opt("ignore-methods", { <<"POST">>, <<"POST", "DELETE">> }) }

\* A slip of the import branch: the imported module is not kept in MODULES.
ImportStepForgets(MODS, module) ==
    IF module \in MODS
    THEN [MODULES |-> MODS, event |-> "reload", registered |-> Registers(module)]
    ELSE [MODULES |-> MODS, event |-> "import_module",
          registered |-> Registers(module)]

\* A slip of the reload branch: a module already in MODULES is left alone.
ImportStepNoReload(MODS, module) ==
    IF module \in MODS
    THEN [MODULES |-> MODS, event |-> "reload", registered |-> <<>>]
    ELSE [MODULES |-> MODS \cup {module}, event |-> "import_module",
          registered |-> Registers(module)]

\* One turn of `for module in self.options.get('modules', [])`
ImportStep(MODS, module) ==
    IF module \in MODS
    THEN [MODULES |-> MODS, event |-> "reload", registered |-> Registers(module)]
    ELSE [MODULES |-> MODS \cup {module}, event |-> "import_module",
          registered |-> Registers(module)]

RECURSIVE ImportLoop(_, _, _, _, _)
ImportLoop(MODS, registry, events, modules, i) ==
    IF i > Len(modules)
    THEN [MODULES |-> MODS, SERVICES |-> registry, events |-> events]
    ELSE LET st == ImportStep(MODS, modules[i])
         IN ImportLoop(st.MODULES, registry \o st.registered,
                       Append(events, <<st.event, modules[i]>>), modules, i + 1)

\* cornice.service.get_services(names=None, exclude=None)
get_services(registry, names, exclude) ==
    SelectSeq(registry,
              LAMBDA name :
                 /\ ~(exclude # None /\ InSeq(name, exclude))
                 /\ ~(names # None /\ ~InSeq(name, names)))

\* A slip of the reset: the registry keeps its descriptors.
keep_services(registry) == registry

\* cornice.service.clear_services(): SERVICES[:] = []
clear_services(registry) == <<>>

\* env.new_serialno('service') returns the counter and advances it
new_serialno(n) == n + 1

\* [self._render_service(s) for s in services]: the comprehension stops at
\* the first service whose rendering raises.  acc holds the nodes so far.
RECURSIVE RenderAll(_, _, _, _, _)
RECURSIVE NextService(_, _, _, _, _, _)
NextService(options, services, i, n, acc, r) ==
    IF r.raised # None
    THEN [raised |-> r.raised, nodes |-> <<>>, serialno |-> new_serialno(n)]
    ELSE RenderAll(options, services, i + 1, new_serialno(n), acc \o r.nodes)

RenderAll(options, services, i, n, acc) ==
    IF i > Len(services) THEN [raised |-> None, nodes |-> acc, serialno |-> n]
    ELSE NextService(options, services, i, n, acc,
                     _render_service(options, ServiceTable[services[i]], n))

\* names = self.options.get('services', []) with `service` appended
Names(options) ==
    OptGet(options, "services", <<>>)
      \o (IF OptGet(options, "service", None) # None
          THEN <<options["service"]>> ELSE <<>>)

\* lines 144-146, given the services line 139 selected
ClearAndRender(options, loaded, services, rendered) ==
    [MODULES |-> loaded.MODULES,
     SERVICES |-> clear_services(loaded.SERVICES),
     events |-> loaded.events,
     registry |-> loaded.SERVICES,
     selected |-> services,
     serialno |-> rendered.serialno,
     raised |-> rendered.raised,
     nodes |-> rendered.nodes]

\* lines 132-146, given the state the imports left
SelectAndRender(options, loaded, services, n) ==
    ClearAndRender(options, loaded, services,
                   RenderAll(options, services, 1, n, <<>>))

AfterImports(options, loaded, n) ==
    SelectAndRender(options, loaded,
                    get_services(loaded.SERVICES,
                                 IF Names(options) # <<>> THEN Names(options) ELSE None,
                                 OptGet(options, "exclude", None)),
                    n)

\* The whole of run on the given options.
RunOutcome(options, MODS, registry, n) ==
    AfterImports(options,
                 ImportLoop(MODS,
                            IF OptGet(options, "app", None) # None
                            THEN registry \o AppRegisters      \* app.main({})
                            ELSE registry,
                            <<>>, OptGet(options, "modules", <<>>), 1),
                 n)

NoRun == [k |-> 0, raised |-> None, options |-> NoArgs, nodes |-> <<>>,
          serialBefore |-> 0]

SeqToSet(seq) == { seq[j] : j \in 1..Len(seq) }

ServiceRun ==
    /\ runs < MaxRuns
    /\ \E options \in OptionBags :
       \E o \in {RunOutcome(options, MODULES, SERVICES, serialno)} :
         LET again == /\ lastSvc.k > 0
                      /\ lastSvc.raised = None
                      /\ lastSvc.options = options
         IN /\ MODULES' = o.MODULES
            /\ SERVICES' = o.SERVICES
            /\ serialno' = o.serialno
            /\ listed' = listed \cup SeqToSet(OptGet(options, "modules", <<>>))
            /\ lastSvc' = [k |-> runs + 1,
                           options |-> options,
                           modulesBefore |-> MODULES,
                           listedBefore |-> listed,
                           serialBefore |-> serialno,
                           events |-> o.events,
                           registry |-> o.registry,
                           selected |-> o.selected,
                           raised |-> o.raised,
                           nodes |-> o.nodes,
                           again |-> again,
                           prevNodes |-> IF again THEN lastSvc.nodes ELSE <<>>,
                           prevSerial |-> IF again THEN lastSvc.serialBefore ELSE 0]
    /\ runs' = runs + 1
    /\ UNCHANGED <<execVars, trimVars>>

(***************************************************************************)
(* ExecDirective.                                                          *)
(***************************************************************************)
Terminal == <<"terminal", 0>>   \* the stream sys.stdout names at start-up

StringIO(k) == <<"StringIO", k>>    \* the buffer created by invocation k

\* What exec('\n'.join(self.content)) does: the text it prints, and how it
\* ends: it returns, raises an Exception, or raises a BaseException that is
\* not an Exception (SystemExit, KeyboardInterrupt).
Snippets ==
    { [out |-> <<"h", "i", "\n">>, end |-> "return", msg |-> None],
      [out |-> <<"a", "\t", "b", " ", "\n", "c">>, end |-> "return", msg |-> None],
      [out |-> <<>>, end |-> "return", msg |-> None],
      [out |-> <<"h", "i", "\n">>, end |-> "Exception", msg |-> "bad"],
      [out |-> <<>>, end |-> "Exception", msg |-> "division by zero"],
      [out |-> <<"h", "i", "\n">>, end |-> "BaseException", msg |-> "1"] }

\* The document being parsed: its source, the directive's line and the
\* tab_width of its settings.
Sources == { [dir |-> "docs", base |-> "index.rst"] }
Linenos == {2, 7}
TabWidths == {4, 8}

basename(source) == source.base

\* statemachine.string2lines(text, tab_width, convert_whitespace=True)
string2lines(text, tab_width) ==
    LET ls == splitlines(text)
    IN [j \in 1..Len(ls) |-> rstrip(expandtabsFrom(ls[j], 1, 0, tab_width))]

ErrorNode(source, lineno, msg) ==
    [tag |-> "error",
     children |->
        << [tag |-> "paragraph",
            text |-> <<"Unable to execute python code at ",
                       basename(source), ":", ToString(lineno), ":">>],
           [tag |-> "paragraph", text |-> <<msg>>] >>]

\* The outcome of run as a record:
\*   stdout      what sys.stdout is bound to when run ends
\*   inserted    the blocks run handed to insert_input
\*   result      the node list run returned, None when it raised
\*   propagated  the exception that left run, None when it returned

\* A slip of the except branch: what was printed before the failure is
\* spliced in as well.
ExceptSplicesOutput(oldStdout, tab_width, source, lineno, snippet) ==
    [stdout |-> oldStdout,
     inserted |-> << [lines |-> string2lines(snippet.out, tab_width),
                      source |-> source] >>,
     result |-> << ErrorNode(source, lineno, snippet.msg) >>,
     propagated |-> None]

\* except Exception: the error node is returned; finally restores stdout
ExceptBranch(oldStdout, tab_width, source, lineno, snippet) ==
    [stdout |-> oldStdout, inserted |-> <<>>,
     result |-> << ErrorNode(source, lineno, snippet.msg) >>,
     propagated |-> None]

\* the try body ran to its return []; finally restores stdout
TryBody(oldStdout, tab_width, source, lineno, snippet) ==
    [stdout |-> oldStdout,
     inserted |-> << [lines |-> string2lines(snippet.out, tab_width),
                      source |-> source] >>,
     result |-> <<>>, propagated |-> None]

ExecOutcome(oldStdout, k, lookup, tab_width, source, lineno, snippet) ==
    IF lookup # "ok"
    THEN \* lines 394-397 stand before the try: the finally never runs, and
         \* sys.stdout stays bound to the StringIO of line 392
         [stdout |-> StringIO(k), inserted |-> <<>>, result |-> None,
          propagated |-> lookup]
    ELSE IF snippet.end = "return"
    THEN TryBody(oldStdout, tab_width, source, lineno, snippet)
    ELSE IF snippet.end = "Exception"
    THEN ExceptBranch(oldStdout, tab_width, source, lineno, snippet)
    ELSE \* not an Exception: no except clause matches; finally restores stdout
         [stdout |-> oldStdout, inserted |-> <<>>, result |-> None,
          propagated |-> snippet.end]

NoExec == [k |-> 0]

ExecRun ==
    /\ runs < MaxRuns
    \* lookup: whether input_lines.source(lineno - input_offset - 1) of
    \* lines 396-397 finds its index or raises IndexError
    /\ \E lookup \in {"ok", "IndexError"}, tab_width \in TabWidths,
          source \in Sources, lineno \in Linenos, snippet \in Snippets :
         LET o == ExecOutcome(stdout, runs + 1, lookup, tab_width, source,
                              lineno, snippet)
         IN /\ stdout' = o.stdout
            /\ input_lines' = input_lines \o o.inserted
            /\ lastExec' = [k |-> runs + 1, oldStdout |-> stdout,
                            lookup |-> lookup, snippet |-> snippet,
                            source |-> source, lineno |-> lineno,
                            tab_width |-> tab_width,
                            linesBefore |-> input_lines,
                            result |-> o.result, propagated |-> o.propagated]
    /\ runs' = runs + 1
    /\ UNCHANGED <<svcVars, trimVars>>

(***************************************************************************)
(* Specifications.  The two directives and trim share no state, so each    *)
(* is checked on its own: Spec runs the service directive, SpecExec the    *)
(* exec directive, SpecTrim applies trim to one input.                     *)
(***************************************************************************)
InitProgram ==
    /\ MODULES = {}
    /\ SERVICES = <<>>
    /\ serialno = 0
    /\ listed = {}
    /\ lastSvc = NoRun
    /\ runs = 0
    /\ stdout = Terminal
    /\ input_lines = <<>>
    /\ lastExec = NoExec

Init == InitProgram /\ docstring = None /\ trimmed = None /\ pcTrim = "idle"

InitTrim ==
    /\ InitProgram
    /\ (docstring = None \/ docstring \in Docstrings)
    /\ trimmed = None
    /\ pcTrim = "in"

Next == ServiceRun

Spec == Init /\ [][Next]_vars

NextExec == ExecRun

SpecExec == Init /\ [][NextExec]_vars

NextTrim == Trim

SpecTrim == InitTrim /\ [][NextTrim]_vars

(***************************************************************************)
(* Reading the rendered output.                                            *)
(***************************************************************************)
Ran == lastSvc.k > 0
Returned == Ran /\ lastSvc.raised = None

\* the method subsections of a service section, and a section's title
MethodNodes(section) == SelectSeq(section.children, LAMBDA c : c.tag = "section")
TitleText(section) == section.children[1].text[1]

ServiceTitle(name) ==
    title(name) \o " service at " \o ServiceTable[name].path

RECURSIVE NoIds(_)
NoIds(n) ==
    [tag |-> n.tag, id |-> "", text |-> n.text,
     children |-> [j \in 1..Len(n.children) |-> NoIds(n.children[j])]]

NoIdsAll(nodes) == [j \in 1..Len(nodes) |-> NoIds(nodes[j])]

IgnoreMethods == SeqToSet(OptGet(lastSvc.options, "ignore-methods", <<>>))

\* the definitions of a service that are neither HEAD nor ignored
Documented(name) ==
    SelectSeq(ServiceTable[name].definitions,
              LAMBDA d : d.method # "HEAD" /\ d.method \notin IgnoreMethods)

(***************************************************************************)
(* C1.  Whenever ServiceDirective.run ends, by returning its sections or   *)
(* because rendering a selected service raised, the process-wide service   *)
(* registry is empty.                                                      *)
(***************************************************************************)
C1_RegistryCleared == Ran => SERVICES = <<>>

\* a run that registered descriptors, selected some, and raised in rendering
C1_Witness ==
    /\ Ran
    /\ lastSvc.raised # None
    /\ lastSvc.selected # <<>>
    /\ SERVICES = <<>>

(***************************************************************************)
(* C2, as stated.  Two invocations in sequence with the same options       *)
(* return identical node lists: same sections, same section ids, same      *)
(* titles and method subsections, in the same order.                       *)
(***************************************************************************)
C2_IdenticalOutput ==
    (Returned /\ lastSvc.again) => lastSvc.nodes = lastSvc.prevNodes

SerialIds(nodes, first) ==
    \A i \in 1..Len(nodes) :
       LET sid == "service-" \o ToString(first + i - 1)
           ms == MethodNodes(nodes[i])
       IN /\ nodes[i].id = sid
          /\ \A j \in 1..Len(ms) : ms[j].id = sid \o "-" \o TitleText(ms[j])

(***************************************************************************)
(* C2, amended.  Two invocations in sequence with the same options return  *)
(* the same sections with the same titles and method subsections in the    *)
(* same order; the ids are not the same: each invocation numbers its       *)
(* sections service-<n> from the environment's serial counter, which the   *)
(* first invocation has advanced by the number of its sections.            *)
(***************************************************************************)
C2_SameSectionsSerialIds ==
    (Returned /\ lastSvc.again) =>
       /\ NoIdsAll(lastSvc.nodes) = NoIdsAll(lastSvc.prevNodes)
       /\ lastSvc.selected # <<>> => lastSvc.nodes # <<>>
       /\ SerialIds(lastSvc.prevNodes, lastSvc.prevSerial)
       /\ lastSvc.serialBefore = lastSvc.prevSerial + Len(lastSvc.prevNodes)
       /\ SerialIds(lastSvc.nodes, lastSvc.serialBefore)

\* the second of two equal invocations, both returning several sections
C2_Witness ==
    /\ Returned
    /\ lastSvc.again
    /\ Len(lastSvc.nodes) >= 2
    /\ \E i \in 1..Len(lastSvc.nodes) : Len(MethodNodes(lastSvc.nodes[i])) >= 2

(***************************************************************************)
(* C3.  On every path by which ExecDirective.run ends, sys.stdout is       *)
(* again the stream it was when run was entered.                           *)
(***************************************************************************)
C3_StdoutRestored == lastExec.k > 0 => stdout = lastExec.oldStdout

Executed == lastExec.k > 0 /\ lastExec.lookup = "ok"

\* the captured text, line by line, as the host's line splitting gives it
CapturedLines ==
    LET ls == splitlines(lastExec.snippet.out)
    IN [j \in 1..Len(ls) |->
          rstrip(expandtabsFrom(ls[j], 1, 0, lastExec.tab_width))]

C5_IgnoredNotRendered ==
    Returned =>
       \A name \in SeqToSet(OptGet(lastSvc.options, "ignore", <<>>)) :
          \A i \in 1..Len(lastSvc.nodes) :
             TitleText(lastSvc.nodes[i]) # ServiceTitle(name)

(***************************************************************************)
(* C6.  The method subsections of every rendered service are exactly its   *)
(* definitions whose method is not HEAD and not in ignore-methods, one     *)
(* subsection each, in definition order, titled with the raw method name.  *)
(***************************************************************************)
C6_MethodSubsections ==
    Returned =>
       /\ Len(lastSvc.nodes) = Len(lastSvc.selected)
       /\ \A i \in 1..Len(lastSvc.nodes) :
             LET ms == MethodNodes(lastSvc.nodes[i])
                 ds == Documented(lastSvc.selected[i])
             IN /\ Len(ms) = Len(ds)
                /\ \A j \in 1..Len(ms) : TitleText(ms[j]) = ds[j].method

\* a rendered service with GET and HEAD definitions shows GET alone, and
\* an ignored method of another rendered service is left out
C6_Witness ==
    /\ Returned
    /\ IgnoreMethods # {}
    /\ \E i \in 1..Len(lastSvc.nodes) :
          /\ lastSvc.selected[i] = "ping"
          /\ Len(MethodNodes(lastSvc.nodes[i])) = 1
          /\ TitleText(MethodNodes(lastSvc.nodes[i])[1]) = "GET"
    /\ \E i \in 1..Len(lastSvc.nodes) :
          /\ lastSvc.selected[i] = "users"
          /\ Len(MethodNodes(lastSvc.nodes[i])) = 1

Lead(line) ==
    CHOOSE n \in 0..Len(line) :
       /\ \A i \in 1..n : line[i] = " "
       /\ n = Len(line) \/ line[n + 1] # " "

NonBlankLine(line) == \E i \in 1..Len(line) : line[i] # " "

\* the line without its trailing spaces
NoTrailing(line) ==
    CHOOSE t \in { SubSeq(line, 1, n) : n \in 0..Len(line) } :
       /\ t = <<>> \/ t[Len(t)] # " "
       /\ \A i \in (Len(t) + 1)..Len(line) : line[i] = " "

\* the line without its first k characters
Without(line, k) == [i \in 1..(IF Len(line) > k THEN Len(line) - k ELSE 0) |-> line[i + k]]

InputLines == splitlines(expandtabs(docstring))

NonBlankAfterFirst ==
    { j \in 2..Len(InputLines) : NonBlankLine(InputLines[j]) }

LeastIndent ==
    CHOOSE k \in { Lead(InputLines[j]) : j \in NonBlankAfterFirst } :
       \A j \in NonBlankAfterFirst : k <= Lead(InputLines[j])

\* each line as the claim leaves it, before blank lines are removed
Dedented ==
    LET L == InputLines
    IN [j \in 1..Len(L) |->
          IF j = 1 THEN NoTrailing(Without(L[1], Lead(L[1])))
          ELSE IF NonBlankAfterFirst = {} THEN <<>>
          ELSE NoTrailing(Without(L[j], LeastIndent))]

ExpectedLines ==
    LET D == Dedented
        kept == { j \in 1..Len(D) : D[j] # <<>> }
    IN IF kept = {} THEN <<>>
       ELSE LET lo == CHOOSE j \in kept : \A m \in kept : j <= m
                hi == CHOOSE j \in kept : \A m \in kept : j >= m
            IN SubSeq(D, lo, hi)

(***************************************************************************)
(* C7.  For a text of N lines, with k the least indentation of the         *)
(* non-blank lines 2..N (tabs expanded), trim removes exactly k leading    *)
(* characters from each of lines 2..N, strips line 1 on its own, and       *)
(* removes leading and trailing blank lines; with no non-blank line after  *)
(* line 1 only line 1 is left; None, empty and whitespace-only input give  *)
(* the empty string.  Lines are compared without their trailing            *)
(* whitespace, which trim strips as well.                                  *)
(***************************************************************************)
C7_TrimDedents ==
    pcTrim = "out" =>
       IF docstring = None THEN trimmed = <<>>
       ELSE /\ splitlines(trimmed) = ExpectedLines
            /\ trimmed = <<>> \/ trimmed[Len(trimmed)] # "\n"
            /\ (\A i \in 1..Len(docstring) : IsSpace(docstring[i])) => trimmed = <<>>

\* a blank first line, then two non-blank lines indented by 1 and by 2
C7_Witness ==
    /\ pcTrim = "out"
    /\ docstring # None
    /\ Len(InputLines) = 3
    /\ InputLines[1] = <<" ">>
    /\ Lead(InputLines[2]) = 2 /\ NonBlankLine(InputLines[2])
    /\ Lead(InputLines[3]) = 1 /\ NonBlankLine(InputLines[3])
    /\ splitlines(trimmed) = << <<" ", "a">>, <<"a">> >>

(***************************************************************************)
(* C8.  _render_service completes without raising for every service        *)
(* descriptor, also when args lacks schema, validators, accept, renderer   *)
(* or klass, and when a string handler names an attribute klass lacks.     *)
(***************************************************************************)
C8_RenderNeverRaises == Ran => lastSvc.raised = None

RECURSIVE RegisteredBy(_)
RegisteredBy(modules) ==
    IF modules = <<>> THEN <<>>
    ELSE Registers(Head(modules)) \o RegisteredBy(Tail(modules))

(***************************************************************************)
(* C9.  Each module name listed in `modules` is imported with              *)
(* import_module the first time it is seen and recorded in MODULES, and    *)
(* reloaded on every later occurrence, so its registrations run once per   *)
(* occurrence; MODULES only grows and, after a run that returns, holds     *)
(* every module name listed so far.                                        *)
(***************************************************************************)
C9_ImportOnceThenReload ==
    Ran =>
       LET modules == OptGet(lastSvc.options, "modules", <<>>)
           seen(i) == lastSvc.listedBefore \cup { modules[j] : j \in 1..(i - 1) }
       IN /\ Len(lastSvc.events) = Len(modules)
          /\ \A i \in 1..Len(modules) :
                lastSvc.events[i] =
                   << IF modules[i] \in seen(i) THEN "reload" ELSE "import_module",
                      modules[i] >>
          /\ lastSvc.registry =
                (IF "app" \in DOMAIN lastSvc.options THEN AppRegisters ELSE <<>>)
                   \o RegisteredBy(modules)
          /\ lastSvc.modulesBefore \subseteq MODULES
          /\ SeqToSet(modules) \subseteq MODULES
          /\ Returned => listed \subseteq MODULES

\* a returning run that reloads a module an earlier run imported, imports a
\* new one and reloads that one too
C9_Witness ==
    /\ Returned
    /\ lastSvc.listedBefore = {"pkg.views"}
    /\ lastSvc.events = << <<"import_module", "pkg.admin">>,
                           <<"reload", "pkg.views">>,
                           <<"reload", "pkg.admin">> >>
    /\ MODULES = {"pkg.views", "pkg.admin"}

AcceptLists(m) ==
    SelectSeq(m.children,
              LAMBDA c : c.tag = "strong" /\ c.text = <<"Accepted content types:">>)

RstText(m) ==
    LET r == SelectSeq(m.children, LAMBDA c : c.tag = "rst")
    IN IF r = <<>> THEN <<>> ELSE r[1].text

EndsWith(text, tail) ==
    /\ Len(tail) <= Len(text)
    /\ SubSeq(text, Len(text) - Len(tail) + 1, Len(text)) = tail

Values(accept) ==
    IF accept.kind = "list"
    THEN [j \in 1..Len(accept.items) |-> accept.items[j].value]
    ELSE <<accept.value>>

Bullets(m) ==
    LET items == AcceptLists(m)[1].children[1].children
    IN [j \in 1..Len(items) |-> items[j].children[1].text[1]]

(***************************************************************************)
(* C10.  When args holds `accept`: a callable value has its docstring      *)
(* appended to the method's docstring and no 'Accepted content types:'     *)
(* list; any other value gives the bold label followed by one bullet per   *)
(* literal value, in order (a single string giving one bullet).            *)
(***************************************************************************)
C10_AcceptRendering ==
    Returned =>
       \A i \in 1..Len(lastSvc.nodes) :
          LET ms == MethodNodes(lastSvc.nodes[i])
              ds == Documented(lastSvc.selected[i])
          IN \A j \in 1..Len(ms) :
                "accept" \in DOMAIN ds[j].args =>
                   LET accept == ds[j].args["accept"]
                   IN IF accept.kind = "callable"
                      THEN /\ AcceptLists(ms[j]) = <<>>
                           /\ EndsWith(RstText(ms[j]), strip(accept.doc))
                      ELSE /\ Len(AcceptLists(ms[j])) = 1
                           /\ Bullets(ms[j]) = Values(accept)

====
